---- MODULE Spec2Model ----
(***************************************************************************)
(* Capability-scoped file access service of VPS-BE: the GridFS blob store  *)
(* (gridfs.service.ts), the signed-URL token service (signed-url.service), *)
(* the identity middleware (auth.middleware) and the HTTP handlers that    *)
(* compose them (file.controller, file-stream.controller,                  *)
(* upload.controller), as one state machine over concurrent requests.      *)
(***************************************************************************)
EXTENDS Integers, Sequences, FiniteSets, TLC

VARIABLES
    now,        \* the clock jwt reads, Math.floor(Date.now() / 1000)
    files,      \* the bucket's files collection: ObjectId -> file document
    chunks,     \* the bucket's chunks collection: ObjectId -> chunk data in order of n
    nextId,     \* the next ObjectId the driver generates
    tokens,     \* the signed URL's token the client holds (it keeps one at a time)
    req,        \* the requests in flight, one per connection slot
    deletedOk,  \* the ids for which deleteFile has returned true
    conn        \* the database module's client, db and isConnecting, the
                \* store service's bucket, and the connectToDatabase calls

vars == <<now, files, chunks, nextId, tokens, req, deletedOk, conn>>

----------------------------------------------------------------------------
(* Bounds of the model *)

NumReq == 2         \* concurrent requests
MaxIds == 2
MaxTime == 2
MaxLen == 2
MaxClients == 3     \* MongoClient objects created

Slots == 1..NumReq

(* An id string that is no 24-hex ObjectId: new ObjectId(id) throws on it. *)
InvalidId == 0
(* `undefined`: the fileId of a token that carries none. *)
Undefined == 0 - 1

ObjectIds == 1..MaxIds
PathIds == ObjectIds \cup {InvalidId}

IsObjectId(id) == id \in Nat /\ id >= 1

----------------------------------------------------------------------------
(* jsonwebtoken: sign and verify *)

JWT_SECRET == "jwt-secret"

(* ms(): a time span string in seconds, as jsonwebtoken's timespan() adds it
   to iat; -1 stands for a string ms() cannot parse (jwt.sign throws). *)
Timespan(expiry) ==
    CASE expiry = "1s" -> 1
      [] expiry = "2s" -> 2
      [] expiry = "5m" -> 300
      [] expiry = "24h" -> 86400
      [] OTHER -> 0 - 1

JWT_EXPIRY == "5m"

(* HMAC over the claims with a key: equal exactly when claims and key are. *)
Sign(claims, key) == [over |-> claims, key |-> key]

NoClaims ==
    [fileId |-> Undefined, userId |-> "", permissions |-> <<>>, metadata |-> "", exp |-> 0]

(* What a client can put in ?token= or after "Bearer ": nothing, a string
   that is no three-part JWT, or a JWT. *)
NoToken == [form |-> "none", claims |-> NoClaims, sig |-> Sign(NoClaims, "")]
Garbage == [form |-> "malformed", claims |-> NoClaims, sig |-> Sign(NoClaims, "")]

JwtSign(claims, key) == [form |-> "jwt", claims |-> claims, sig |-> Sign(claims, key)]

(* A client altering the signature segment of a token it holds. *)
TamperSig(t) == [t EXCEPT !.sig = Sign(t.claims, "flipped")]
(* A client rewriting the fileId claim while keeping the signature. *)
Rebind(t, id) == [t EXCEPT !.claims.fileId = id]

(* Faulty verifications, for comparison with jwt.verify below: one that
   takes any signature, one that lets a token live through the second of its
   expiry, one that looks at exp before the signature. *)
JwtVerifyNoSignature(t, key, clock) ==
    IF t.form # "jwt" THEN [ok |-> FALSE, err |-> "JsonWebTokenError", payload |-> NoClaims]
    ELSE IF clock >= t.claims.exp
        THEN [ok |-> FALSE, err |-> "TokenExpiredError", payload |-> NoClaims]
    ELSE [ok |-> TRUE, err |-> "", payload |-> t.claims]

JwtVerifyLate(t, key, clock) ==
    IF t.form # "jwt" THEN [ok |-> FALSE, err |-> "JsonWebTokenError", payload |-> NoClaims]
    ELSE IF t.sig # Sign(t.claims, key)
        THEN [ok |-> FALSE, err |-> "JsonWebTokenError", payload |-> NoClaims]
    ELSE IF clock > t.claims.exp
        THEN [ok |-> FALSE, err |-> "TokenExpiredError", payload |-> NoClaims]
    ELSE [ok |-> TRUE, err |-> "", payload |-> t.claims]

JwtVerifyExpFirst(t, key, clock) ==
    IF t.form # "jwt" THEN [ok |-> FALSE, err |-> "JsonWebTokenError", payload |-> NoClaims]
    ELSE IF clock >= t.claims.exp
        THEN [ok |-> FALSE, err |-> "TokenExpiredError", payload |-> NoClaims]
    ELSE IF t.sig # Sign(t.claims, key)
        THEN [ok |-> FALSE, err |-> "JsonWebTokenError", payload |-> NoClaims]
    ELSE [ok |-> TRUE, err |-> "", payload |-> t.claims]

(* jwt.verify(token, secret): 'jwt malformed' and 'invalid signature' are
   JsonWebTokenError and are raised before the exp check, which raises
   TokenExpiredError when clockTimestamp >= exp. *)
JwtVerify(t, key, clock) ==
    IF t.form # "jwt" THEN [ok |-> FALSE, err |-> "JsonWebTokenError", payload |-> NoClaims]
    ELSE IF t.sig # Sign(t.claims, key)
        THEN [ok |-> FALSE, err |-> "JsonWebTokenError", payload |-> NoClaims]
    ELSE IF clock >= t.claims.exp
        THEN [ok |-> FALSE, err |-> "TokenExpiredError", payload |-> NoClaims]
    ELSE [ok |-> TRUE, err |-> "", payload |-> t.claims]

----------------------------------------------------------------------------
(* signed-url.service *)

(* options.permissions of generateSignedUrl: left out, or an array. *)
Unset == [set |-> FALSE, items |-> <<>>]
Given(items) == [set |-> TRUE, items |-> items]

(* generateSignedUrl: the token of the URL (the URL is base + fileId + token).
   options?.permissions || ['read']: every array, the empty one too, is kept. *)
generateSignedUrl(fileId, userId, permissions, metadata, expiry, clock) ==
    JwtSign([fileId |-> fileId,
             userId |-> userId,
             permissions |-> IF permissions.set THEN permissions.items ELSE <<"read">>,
             metadata |-> metadata,
             exp |-> clock + Timespan(IF expiry = "" THEN JWT_EXPIRY ELSE expiry)],
            JWT_SECRET)

(* jwt.sign throws on an expiresIn that ms() cannot parse. *)
SignThrows(expiry) == Timespan(IF expiry = "" THEN JWT_EXPIRY ELSE expiry) < 0

(* A validation that returns the claims without their metadata, for
   comparison with validateToken below. *)
validateTokenBare(t, clock) ==
    LET v == JwtVerify(t, JWT_SECRET, clock) IN
    IF v.ok THEN [valid |-> TRUE, payload |-> [v.payload EXCEPT !.metadata = ""],
                  error |-> ""]
    ELSE [valid |-> FALSE, payload |-> NoClaims,
          error |-> IF v.err = "TokenExpiredError" THEN "Token has expired"
                    ELSE IF v.err = "JsonWebTokenError" THEN "Invalid token format"
                    ELSE "Invalid token"]

validateToken(t, clock) ==
    LET v == JwtVerify(t, JWT_SECRET, clock) IN
    IF v.ok THEN [valid |-> TRUE, payload |-> v.payload, error |-> ""]
    ELSE [valid |-> FALSE, payload |-> NoClaims,
          error |-> IF v.err = "TokenExpiredError" THEN "Token has expired"
                    ELSE IF v.err = "JsonWebTokenError" THEN "Invalid token format"
                    ELSE "Invalid token"]

----------------------------------------------------------------------------
(* gridfs.service: reads of the bucket *)

NoInfo == [found |-> FALSE, id |-> InvalidId, length |-> 0]

(* A lookup that also finds a blob by its chunks alone, for comparison with
   getFileInfo below. *)
getFileInfoByChunks(id) ==
    IF id \in DOMAIN files THEN [found |-> TRUE, id |-> id, length |-> files[id].length]
    ELSE IF id \in DOMAIN chunks THEN [found |-> TRUE, id |-> id, length |-> Len(chunks[id])]
    ELSE NoInfo

(* getFileInfo: files[0] || null of find({_id}) on the files collection. *)
getFileInfo(id) ==
    IF id \in DOMAIN files THEN [found |-> TRUE, id |-> id, length |-> files[id].length]
    ELSE NoInfo

(* listFiles({}): the ids of the documents of the files collection. *)
listFiles == DOMAIN files

(* downloadFile: what the stream of openDownloadStream yields when it is
   read in this state: the blob's chunks, or the driver's FileNotFound. *)
downloadFile(id) ==
    IF id \in DOMAIN files THEN [error |-> "", id |-> id]
    ELSE [error |-> "FileNotFound", id |-> id]

----------------------------------------------------------------------------
(* One request: the Express req/res pair and the handler's locals; `live`
   notes for a delete whether its blob was stored when the request arrived. *)

(* req.body.permissions: absent, a comma-separated string, or a JSON array. *)
NoPerms == [form |-> "none", items |-> <<>>]

(* req.body of a mint or upload request with every optional field left out;
   "" stands for an absent (or empty, equally falsy) userId, expiry, metadata. *)
NoBody == [userId |-> "", permissions |-> NoPerms, expiry |-> "", metadata |-> ""]

(* The expiresIn and permissions fields of the mint endpoint's answer. *)
NoAnswer == [expiresIn |-> "", permissions |-> <<>>]

(* req.file as multer sees the file part: its name and content type, as the
   words they are made of, and its size in MB; no file part at all. *)
NoFile == [originalname |-> <<>>, mimetype |-> <<>>, mb |-> 0]

Idle ==
    [kind |-> "idle", pc |-> "idle", id |-> InvalidId, tok |-> NoToken,
     status |-> 0, error |-> "", message |-> "", ids |-> <<>>,
     responses |-> 0, nextCalls |-> 0, headersSent |-> FALSE, ended |-> FALSE,
     hasAccess |-> FALSE, fileAccess |-> NoClaims,
     consulted |-> FALSE, info |-> NoInfo,
     sent |-> <<>>, meta |-> {}, minted |-> {},
     hasUser |-> FALSE, user |-> "",
     live |-> FALSE, deletedCount |-> 0, size |-> 0, upId |-> InvalidId, result |-> "",
     file |-> NoFile, body |-> NoBody, answer |-> NoAnswer, url |-> InvalidId]

(* res.status(code).json({error, message}): one complete JSON response. *)
Json(r, code, error, message) ==
    [r EXCEPT !.pc = "done", !.status = code, !.error = error, !.message = message,
              !.responses = @ + 1, !.headersSent = TRUE, !.ended = TRUE]

----------------------------------------------------------------------------
(* The middlewares in front of the handlers (index.ts routes) *)

(* Faulty gates, for comparison with validateFileAccess below: one that
   never compares the token's fileId with the path, one that compares the
   decoded fileId before it verifies the token. *)
validateFileAccessUnbound(r, clock) ==
    LET validation == validateToken(r.tok, clock) IN
    IF r.tok.form = "none"
        THEN Json(r, 401, "Access token required",
                  "Please provide a valid token in the query parameters")
    ELSE IF ~validation.valid
        THEN Json(r, 401, "Invalid or expired token", validation.error)
    ELSE [r EXCEPT !.fileAccess = validation.payload, !.hasAccess = TRUE,
                   !.nextCalls = @ + 1, !.pc = "handler"]

validateFileAccessBindFirst(r, clock) ==
    LET validation == validateToken(r.tok, clock) IN
    IF r.tok.form = "none"
        THEN Json(r, 401, "Access token required",
                  "Please provide a valid token in the query parameters")
    ELSE IF r.tok.claims.fileId # r.id
        THEN [Json(r, 403, "Token file mismatch",
                   "Token is not valid for the requested file")
                EXCEPT !.ids = <<r.tok.claims.fileId, r.id>>]
    ELSE IF ~validation.valid
        THEN Json(r, 401, "Invalid or expired token", validation.error)
    ELSE [r EXCEPT !.fileAccess = validation.payload, !.hasAccess = TRUE,
                   !.nextCalls = @ + 1, !.pc = "handler"]

(* A gate that lets a token through only when its permissions name "read",
   for comparison with validateFileAccess below. *)
validateFileAccessPermitted(r, clock) ==
    LET validation == validateToken(r.tok, clock) IN
    IF r.tok.form = "none"
        THEN Json(r, 401, "Access token required",
                  "Please provide a valid token in the query parameters")
    ELSE IF ~validation.valid
        THEN Json(r, 401, "Invalid or expired token", validation.error)
    ELSE IF validation.payload.fileId # r.id
        THEN [Json(r, 403, "Token file mismatch",
                   "Token is not valid for the requested file")
                EXCEPT !.ids = <<validation.payload.fileId, r.id>>]
    ELSE IF \A i \in DOMAIN validation.payload.permissions :
                validation.payload.permissions[i] # "read"
        THEN Json(r, 403, "Insufficient permissions", "Token does not permit reading")
    ELSE [r EXCEPT !.fileAccess = validation.payload, !.hasAccess = TRUE,
                   !.nextCalls = @ + 1, !.pc = "handler"]

(* A gate that takes every token once only, for comparison with
   validateFileAccess below. *)
validateFileAccessOnce(r, clock) ==
    LET validation == validateToken(r.tok, clock) IN
    IF r.tok.form = "none"
        THEN Json(r, 401, "Access token required",
                  "Please provide a valid token in the query parameters")
    ELSE IF ~validation.valid
        THEN Json(r, 401, "Invalid or expired token", validation.error)
    ELSE IF \E s \in Slots : req[s].tok = r.tok /\ req[s].hasAccess
        THEN Json(r, 401, "Invalid or expired token", "Token already used")
    ELSE IF validation.payload.fileId # r.id
        THEN [Json(r, 403, "Token file mismatch",
                   "Token is not valid for the requested file")
                EXCEPT !.ids = <<validation.payload.fileId, r.id>>]
    ELSE [r EXCEPT !.fileAccess = validation.payload, !.hasAccess = TRUE,
                   !.nextCalls = @ + 1, !.pc = "handler"]

(* validateFileAccess: the routes name the path parameter :id, so the
   `!requestedFileId` branch (400) is never taken. *)
validateFileAccess(r, clock) ==
    LET validation == validateToken(r.tok, clock) IN
    IF r.tok.form = "none"
        THEN Json(r, 401, "Access token required",
                  "Please provide a valid token in the query parameters")
    ELSE IF ~validation.valid
        THEN Json(r, 401, "Invalid or expired token", validation.error)
    ELSE IF validation.payload.fileId # r.id
        THEN [Json(r, 403, "Token file mismatch",
                   "Token is not valid for the requested file")
                EXCEPT !.ids = <<validation.payload.fileId, r.id>>]
    ELSE [r EXCEPT !.fileAccess = validation.payload, !.hasAccess = TRUE,
                   !.nextCalls = @ + 1, !.pc = "handler"]

(* requireAuth: the Authorization header's bearer token is verified with
   the same JWT_SECRET; decoded.userId becomes req.user.userId. *)
requireAuth(r, clock) ==
    LET decoded == JwtVerify(r.tok, JWT_SECRET, clock) IN
    IF r.tok.form = "none"
        THEN Json(r, 401, "Authentication required",
                  "Please provide a valid Authorization header with Bearer token")
    ELSE IF ~decoded.ok
        THEN Json(r, 401, "Invalid token", "The provided token is invalid or expired")
    ELSE [r EXCEPT !.user = decoded.payload.userId, !.hasUser = TRUE,
                   !.nextCalls = @ + 1, !.pc = "handler"]

(* generateAuthToken: the identity token of a logged-in user, 24h. *)
generateAuthToken(userId, clock) ==
    JwtSign([fileId |-> Undefined, userId |-> userId, permissions |-> <<>>,
             metadata |-> "", exp |-> clock + Timespan("24h")], JWT_SECRET)

----------------------------------------------------------------------------
(* What clients send *)

Users == {"alice"}
Expiries == {"", "1s", "abc"}

(* The bytes of an upload, one value per chunk: slice i of a file of n
   slices, so that files of different sizes differ in every slice. *)
Buffer(n) == [i \in 1..n |-> <<n, i>>]

ReadKinds == {"stream", "download", "metadata"}
UploadKinds == {"upload", "simple", "generated"}
MintKinds == UploadKinds \cup {"mint"}

(* The identity tokens of the logins so far (auth controller: register and
   login answer with generateAuthToken). *)
Identities == {generateAuthToken(u, c) : u \in Users, c \in 0..now}

(* The tokens the clients were handed. *)
Held == tokens \cup Identities

(* Tokens a client can present: none, garbage, one it was handed, or one it
   was handed with the signature or the fileId claim altered. *)
Presentable ==
    {NoToken, Garbage} \cup Held
        \cup {TamperSig(t) : t \in Held}
        \cup UNION {{Rebind(t, id) : id \in ObjectIds \ {t.claims.fileId}} : t \in Held}

(* The client is handed the token t: it keeps it, or keeps the one it has. *)
Handed(t) == tokens' \in {tokens, {t}}

Set(s, r) == req' = [req EXCEPT ![s] = r]

(* res.json(body) with status 200 or 201. *)
Ok(r, code) ==
    [r EXCEPT !.pc = "done", !.status = code, !.responses = @ + 1,
              !.headersSent = TRUE, !.ended = TRUE]

----------------------------------------------------------------------------
(* Read flow: GET /api/files/:id, /download, /metadata *)

(* The request arrives and validateFileAccess runs on it at once. *)
StartRead(s, kind, id, t) ==
    /\ req[s].kind = "idle"
    /\ Set(s, validateFileAccess(
                [Idle EXCEPT !.kind = kind, !.pc = "mw", !.id = id, !.tok = t], now))
    /\ UNCHANGED <<now, files, chunks, nextId, tokens, deletedOk, conn>>

(* await getFileInfo(fileId) in a handler: new ObjectId throws on an id
   that is no ObjectId, which the handler's catch answers with 500. *)
GetInfoStep(r, failure) ==
    IF ~IsObjectId(r.id) THEN Json(r, 500, failure, "BSONError")
    ELSE [r EXCEPT !.info = getFileInfo(r.id), !.consulted = TRUE, !.pc = "gotinfo"]

ReadFailure(kind) ==
    CASE kind = "stream" -> "Failed to stream file"
      [] kind = "download" -> "Failed to download file"
      [] OTHER -> "Failed to get file metadata"

(* The error the stream's 'error' listener answers with. *)
StreamError(kind) == IF kind = "download" THEN "Download error" ELSE "Stream error"

ReadGetInfo(s) ==
    /\ req[s].pc = "handler" /\ req[s].kind \in ReadKinds
    /\ Set(s, GetInfoStep(req[s], ReadFailure(req[s].kind)))
    /\ UNCHANGED <<now, files, chunks, nextId, tokens, deletedOk, conn>>

(* After getFileInfo: 404 (the stream handler adds the ids and names of up
   to ten stored files), the metadata JSON, or the headers and the stream. *)
ReadAnswer(r) ==
    IF ~r.info.found
        THEN [Json(r, 404, "File not found", "The requested file does not exist")
                EXCEPT !.meta = IF r.kind = "stream" THEN listFiles ELSE {}]
    ELSE IF r.kind = "metadata"
        THEN [Ok(r, 200) EXCEPT !.meta = {r.info.id}]
    ELSE [r EXCEPT !.pc = "piping"]

ReadRespond(s) ==
    /\ req[s].pc = "gotinfo" /\ req[s].kind \in ReadKinds
    /\ Set(s, ReadAnswer(req[s]))
    /\ UNCHANGED <<now, files, chunks, nextId, tokens, deletedOk, conn>>

(* The download stream's first read looks the file document up; FileNotFound
   reaches the handler's 'error' listener before any header is sent. *)
StreamOpen(r) ==
    IF downloadFile(r.id).error # ""
        THEN Json(r, 500, StreamError(r.kind), ReadFailure(r.kind))
    ELSE IF r.info.length = 0
        THEN Ok(r, 200)
    ELSE [r EXCEPT !.pc = "streaming"]

ReadOpen(s) ==
    /\ req[s].pc = "piping"
    /\ Set(s, StreamOpen(req[s]))
    /\ UNCHANGED <<now, files, chunks, nextId, tokens, deletedOk, conn>>

(* A download stream that yields the chunks last to first, for comparison
   with StreamChunk below. *)
StreamChunkBackwards(r) ==
    LET n == Len(r.sent) IN
    IF r.id \notin DOMAIN chunks \/ n >= Len(chunks[r.id])
        THEN IF r.headersSent THEN [r EXCEPT !.pc = "stalled"]
             ELSE Json(r, 500, StreamError(r.kind), ReadFailure(r.kind))
    ELSE [r EXCEPT !.sent = Append(@, chunks[r.id][Len(chunks[r.id]) - n]),
                   !.status = 200, !.headersSent = TRUE,
                   !.responses = IF n = 0 THEN @ + 1 ELSE @,
                   !.ended = (n + 1 = r.info.length),
                   !.pc = IF n + 1 = r.info.length THEN "done" ELSE "streaming"]

(* A pipe that looks at the token's expiry before every chunk and stops at
   it, for comparison with StreamChunk below. *)
StreamChunkRecheck(r) ==
    LET n == Len(r.sent) IN
    IF r.tok.claims.exp <= now
        THEN IF r.headersSent THEN [r EXCEPT !.pc = "stalled"]
             ELSE Json(r, 401, "Invalid or expired token", "Token has expired")
    ELSE IF r.id \notin DOMAIN chunks \/ n >= Len(chunks[r.id])
        THEN IF r.headersSent THEN [r EXCEPT !.pc = "stalled"]
             ELSE Json(r, 500, StreamError(r.kind), ReadFailure(r.kind))
    ELSE [r EXCEPT !.sent = Append(@, chunks[r.id][n + 1]),
                   !.status = 200, !.headersSent = TRUE,
                   !.responses = IF n = 0 THEN @ + 1 ELSE @,
                   !.ended = (n + 1 = r.info.length),
                   !.pc = IF n + 1 = r.info.length THEN "done" ELSE "streaming"]

(* One chunk piped to the response. A missing chunk is a stream error: 500
   while no header is out, otherwise nothing is written and nothing ends. *)
StreamChunk(r) ==
    LET n == Len(r.sent) IN
    IF r.id \notin DOMAIN chunks \/ n >= Len(chunks[r.id])
        THEN IF r.headersSent THEN [r EXCEPT !.pc = "stalled"]
             ELSE Json(r, 500, StreamError(r.kind), ReadFailure(r.kind))
    ELSE [r EXCEPT !.sent = Append(@, chunks[r.id][n + 1]),
                   !.status = 200, !.headersSent = TRUE,
                   !.responses = IF n = 0 THEN @ + 1 ELSE @,
                   !.ended = (n + 1 = r.info.length),
                   !.pc = IF n + 1 = r.info.length THEN "done" ELSE "streaming"]

ReadChunk(s) ==
    /\ req[s].pc = "streaming"
    /\ Set(s, StreamChunk(req[s]))
    /\ UNCHANGED <<now, files, chunks, nextId, tokens, deletedOk, conn>>

----------------------------------------------------------------------------
(* Delete flow: DELETE /api/files/:fileId behind requireAuth *)

(* A deleteOne / deleteMany that matches nothing, for comparison. *)
RemoveNothing(f, k) == f

(* The collection f without the documents of id k. *)
Remove(f, k) == [x \in DOMAIN f \ {k} |-> f[x]]

(* The request arrives and requireAuth runs on it at once. *)
StartDelete(s, id, t) ==
    /\ req[s].kind = "idle"
    /\ Set(s, requireAuth(
                [Idle EXCEPT !.kind = "delete", !.pc = "auth", !.id = id, !.tok = t,
                             !.live = id \in DOMAIN files], now))
    /\ UNCHANGED <<now, files, chunks, nextId, tokens, deletedOk, conn>>

(* deleteFile's answer to the handler: 200 on true, 404 on false. *)
DeleteAnswer(r, success) ==
    IF success THEN [Ok(r, 200) EXCEPT !.result = "true"]
    ELSE [Json(r, 404, "File not found or deletion failed",
               "The requested file does not exist or could not be deleted")
            EXCEPT !.result = "false"]

(* bucket.delete, first write: deleteOne on the files collection. On an id
   that is no ObjectId the constructor throws and deleteFile returns false. *)
DeleteFilesDoc(s) ==
    /\ req[s].pc = "handler" /\ req[s].kind = "delete"
    /\ IF ~IsObjectId(req[s].id)
         THEN /\ Set(s, DeleteAnswer(req[s], FALSE))
              /\ UNCHANGED files
         ELSE /\ Set(s, [req[s] EXCEPT !.pc = "delchunks", !.consulted = TRUE,
                            !.deletedCount = IF req[s].id \in DOMAIN files THEN 1 ELSE 0])
              /\ files' = Remove(files, req[s].id)
    /\ UNCHANGED <<now, chunks, nextId, tokens, deletedOk, conn>>

(* bucket.delete, second write: deleteMany on the chunks collection. *)
DeleteChunks(s) ==
    /\ req[s].pc = "delchunks"
    /\ chunks' = Remove(chunks, req[s].id)
    /\ Set(s, [req[s] EXCEPT !.pc = "delret"])
    /\ UNCHANGED <<now, files, nextId, tokens, deletedOk, conn>>

(* A deleteFile that reports success whatever was deleted, for comparison. *)
deleteFileResultAlways(deletedCount) == TRUE

(* bucket.delete throws "File not found" when deletedCount is 0; deleteFile
   turns the throw into false and the normal return into true. *)
deleteFileResult(deletedCount) == deletedCount > 0

DeleteReturn(s) ==
    /\ req[s].pc = "delret"
    /\ Set(s, DeleteAnswer(req[s], deleteFileResult(req[s].deletedCount)))
    /\ deletedOk' = IF deleteFileResult(req[s].deletedCount)
                       THEN deletedOk \cup {req[s].id} ELSE deletedOk
    /\ UNCHANGED <<now, files, chunks, nextId, tokens, conn>>

----------------------------------------------------------------------------
(* Upload flow: POST /api/files/upload, POST /api/upload, storeBase64Image *)

(* A small image, which both multer instances let through. *)
SmallImage ==
    [originalname |-> <<"a", ".", "png">>, mimetype |-> <<"image", "/", "png">>, mb |-> 1]

(* The file parts clients upload: an image and a text file, each small,
   over 10 MB, or over 50 MB. *)
FileParts ==
    {[originalname |-> name, mimetype |-> type, mb |-> mb] :
        name \in {<<"a", ".", "png">>, <<"a", ".", "txt">>},
        type \in {<<"image", "/", "png">>, <<"text", "/", "plain">>},
        mb \in {1, 11, 51}}

(* limits.fileSize of the two multer instances, in MB. *)
LimitFileSize(kind) == IF kind = "upload" THEN 10 ELSE 50

(* allowedTypes of the two fileFilters. *)
allowedTypes(kind) ==
    {"jpeg", "jpg", "png", "gif", "webp", "svg"}
        \cup (IF kind = "simple" THEN {"bmp"} ELSE {})

(* allowedTypes.test(str): one of the words occurs in str. *)
Test(allowed, str) == \E i \in DOMAIN str : str[i] \in allowed

(* fileFilter: cb(null, true) when both the name and the content type match. *)
fileFilter(kind, file) ==
    Test(allowedTypes(kind), file.originalname) /\ Test(allowedTypes(kind), file.mimetype)

(* upload.single('file'): the error multer passes to next(), "" when it sets
   req.file and calls next() without one. The filter runs when the part
   begins, the size limit is hit while its bytes are read. *)
MulterError(kind, file) ==
    IF ~fileFilter(kind, file) THEN "Only image files are allowed"
    ELSE IF file.mb > LimitFileSize(kind) THEN "LIMIT_FILE_SIZE"
    ELSE ""

(* The file parts multer lets through to the handler; storeBase64Image takes
   its image from the caller. *)
Accepted(kind) ==
    IF kind = "generated" THEN {SmallImage}
    ELSE {f \in FileParts : MulterError(kind, f) = ""}

(* Uploads that have not yet opened their upload stream. *)
Opening == {s \in Slots : req[s].kind \in UploadKinds /\ req[s].pc = "handler"}

(* The request arrives with a small image of n chunks (without a file part
   the handler answers 400 at once: HandleNoFile; a file part multer refuses
   never reaches the handler: HandleRefused). *)
StartUpload(s, kind, n) ==
    /\ req[s].kind = "idle"
    /\ nextId + Cardinality(Opening) <= MaxIds
    /\ Set(s, [Idle EXCEPT !.kind = kind, !.pc = "handler", !.size = n,
                           !.file = SmallImage])
    /\ UNCHANGED <<now, files, chunks, nextId, tokens, deletedOk, conn>>

(* An upload stream that inserts the file document when it opens, for
   comparison with openUploadStream below. *)
UploadOpenEager(s) ==
    /\ req[s].pc = "handler" /\ req[s].kind \in UploadKinds
    /\ Set(s, [req[s] EXCEPT !.pc = "writing", !.upId = nextId])
    /\ nextId' = nextId + 1
    /\ files' = [x \in DOMAIN files \cup {nextId} |->
                    IF x = nextId THEN [length |-> req[s].size] ELSE files[x]]
    /\ UNCHANGED <<now, chunks, tokens, deletedOk, conn>>

(* uploadFile: openUploadStream draws the ObjectId; nothing is written yet. *)
UploadOpen(s) ==
    /\ req[s].pc = "handler" /\ req[s].kind \in UploadKinds
    /\ Set(s, [req[s] EXCEPT !.pc = "writing", !.upId = nextId])
    /\ nextId' = nextId + 1
    /\ UNCHANGED <<now, files, chunks, tokens, deletedOk, conn>>

(* The catch of the upload handlers: 500 with the caught error's message;
   storeBase64Image rethrows it. *)
UploadFailure(r, message) ==
    IF r.kind = "generated"
        THEN [r EXCEPT !.pc = "done", !.error = "Failed to store image",
                       !.message = message, !.result = "throw"]
    ELSE Json(r, 500, "Upload failed", message)

Written(id) == IF id \in DOMAIN chunks THEN chunks[id] ELSE <<>>

(* The upload stream inserts one chunk document. *)
UploadWrite(s) ==
    /\ req[s].pc = "writing"
    /\ Len(Written(req[s].upId)) < req[s].size
    /\ LET id == req[s].upId
           w == Written(id) IN
          chunks' = [x \in DOMAIN chunks \cup {id} |->
                        IF x = id THEN Append(w, Buffer(req[s].size)[Len(w) + 1])
                        ELSE chunks[x]]
    /\ UNCHANGED <<now, files, nextId, tokens, req, deletedOk, conn>>

(* The store rejects a write: the stream's 'error' rejects uploadFile. *)
UploadError(s) ==
    /\ req[s].pc = "writing"
    /\ Set(s, UploadFailure(req[s], "store error"))
    /\ UNCHANGED <<now, files, chunks, nextId, tokens, deletedOk, conn>>

(* The file document, as the upload stream inserts it at the end: its
   length is the number of bytes the stream wrote (uploadStream.length, the
   size the upload reports). *)
FileDoc(written) == [length |-> Len(written)]

(* All chunks are in: the stream inserts the file document and emits
   'finish', which resolves uploadFile. *)
UploadFinish(s) ==
    /\ req[s].pc = "writing"
    /\ Len(Written(req[s].upId)) = req[s].size
    /\ files' = [x \in DOMAIN files \cup {req[s].upId} |->
                    IF x = req[s].upId THEN FileDoc(Written(req[s].upId)) ELSE files[x]]
    /\ Set(s, [req[s] EXCEPT !.pc = "stored"])
    /\ UNCHANGED <<now, chunks, nextId, tokens, deletedOk, conn>>

(* The expiry each caller of generateSignedUrl passes, from the request's
   expiry field e ("" when absent). *)
UploadExpiry(kind, e) ==
    CASE kind = "upload" -> ""
      [] e # "" -> e
      [] OTHER -> "24h"

(* userId: req.body.userId || 'anonymous' in the simple upload. *)
UploadUser(kind, u) == IF kind = "simple" /\ u = "" THEN "anonymous" ELSE u

(* metadata: uploadResult, with generated: true from storeBase64Image. *)
UploadMetadata(kind) ==
    IF kind = "generated" THEN "uploadResult, generated" ELSE "uploadResult"

UploadToken(r, u, e, clock) ==
    generateSignedUrl(r.upId, UploadUser(r.kind, u), Unset, UploadMetadata(r.kind),
                      UploadExpiry(r.kind, e), clock)

(* 201 with the file and its signed URL; storeBase64Image returns them. *)
UploadSuccess(r, t) ==
    IF r.kind = "generated"
        THEN [r EXCEPT !.pc = "done", !.id = r.upId, !.minted = {t}, !.result = "stored",
                       !.url = r.upId]
    ELSE [Ok(r, 201) EXCEPT !.id = r.upId, !.minted = {t}, !.result = "stored",
                            !.url = r.upId]

(* The fields the upload's callers send along with the file. *)
UploadBody(u, e) == [NoBody EXCEPT !.userId = u, !.expiry = e]

(* After uploadFile resolved: sign the URL and answer 201 (jwt.sign's throw
   is caught with the rest: 500, or a rethrow from storeBase64Image). *)
UploadMint(s, u, e) ==
    /\ req[s].pc = "stored"
    /\ LET r == [req[s] EXCEPT !.body = UploadBody(u, e)] IN
       IF SignThrows(UploadExpiry(r.kind, e))
         THEN /\ Set(s, UploadFailure(r, "sign error"))
              /\ UNCHANGED tokens
         ELSE /\ Set(s, UploadSuccess(r, UploadToken(r, u, e, now)))
              /\ Handed(UploadToken(r, u, e, now))
    /\ UNCHANGED <<now, files, chunks, nextId, deletedOk, conn>>

----------------------------------------------------------------------------
(* Mint endpoint: POST /api/files/:fileId/signed-url *)

(* req.body.permissions as clients send it: left out, a string (here the
   words and commas it is made of, at most one word between two commas), or
   a JSON array. *)
PermInputs ==
    {NoPerms,
     [form |-> "string", items |-> <<"read", ",", "download">>],
     [form |-> "array", items |-> <<"read", "download">>]}

(* The request bodies the mint endpoint is sent. *)
Bodies ==
    {[userId |-> u, permissions |-> p, expiry |-> e, metadata |-> ""] :
        u \in Users \cup {""}, p \in PermInputs, e \in Expiries}

StartMint(s, id) ==
    /\ req[s].kind = "idle"
    /\ Set(s, [Idle EXCEPT !.kind = "mint", !.pc = "handler", !.id = id])
    /\ UNCHANGED <<now, files, chunks, nextId, tokens, deletedOk, conn>>

MintGetInfo(s) ==
    /\ req[s].pc = "handler" /\ req[s].kind = "mint"
    /\ Set(s, GetInfoStep(req[s], "Failed to generate signed URL"))
    /\ UNCHANGED <<now, files, chunks, nextId, tokens, deletedOk, conn>>

(* `permissions ?`: an array is truthy even when empty, a string unless empty. *)
Truthy(p) == p.form = "array" \/ (p.form = "string" /\ p.items # <<>>)

(* permissions.split(','): a TypeError on anything but a string. *)
SplitThrows(p) == Truthy(p) /\ p.form # "string"

Commas(str) == {i \in DOMAIN str : str[i] = ","}

(* The name between two commas: "" when nothing is between them. *)
Name(part) == IF part = <<>> THEN "" ELSE part[1]

RECURSIVE split(_)
(* str.split(','): the names between the commas, empty ones included. *)
split(str) ==
    IF Commas(str) = {} THEN <<Name(str)>>
    ELSE LET i == CHOOSE c \in Commas(str) : \A d \in Commas(str) : c <= d
         IN <<Name(SubSeq(str, 1, i - 1))>> \o split(SubSeq(str, i + 1, Len(str)))

(* permissions ? permissions.split(',') : ['read'] *)
SplitPerms(p) == IF Truthy(p) THEN split(p.items) ELSE <<"read">>

(* The three branches of the handler (generateUserSignedUrl,
   generateSignedUrlWithPermissions, generateSignedUrl) pass the same
   options on: the path's fileId, the body's userId, expiry and metadata,
   and the split permissions. *)
MintToken(r, b, clock) ==
    generateSignedUrl(r.id, b.userId, Given(SplitPerms(b.permissions)), b.metadata,
                      b.expiry, clock)

MintThrows(b) == SplitThrows(b.permissions) \/ SignThrows(b.expiry)

(* After getFileInfo: 404, or the signed URL with expiresIn and permissions,
   or 500 from the catch. *)
MintAnswer(r0, b, clock) ==
    LET r == [r0 EXCEPT !.body = b] IN
    IF ~r.info.found
        THEN Json(r, 404, "File not found", "The requested file does not exist")
    ELSE IF MintThrows(b)
        THEN Json(r, 500, "Failed to generate signed URL", "throw")
    ELSE [Ok(r, 200) EXCEPT !.minted = {MintToken(r, b, clock)}, !.url = r.id,
                            !.answer = [expiresIn |-> IF b.expiry = "" THEN "5m"
                                                      ELSE b.expiry,
                                        permissions |-> SplitPerms(b.permissions)]]

(* A mint endpoint that stores the blob again under a new id, for comparison
   with MintRespond below. *)
MintRespondReupload(s, b) ==
    /\ req[s].pc = "gotinfo" /\ req[s].kind = "mint"
    /\ Set(s, MintAnswer(req[s], b, now))
    /\ IF req'[s].minted = {} THEN UNCHANGED <<tokens, files, chunks, nextId>>
       ELSE /\ Handed(MintToken(req[s], b, now))
            /\ nextId' = nextId + 1
            /\ files' = [x \in DOMAIN files \cup {nextId} |->
                            IF x = nextId THEN files[req[s].id] ELSE files[x]]
            /\ chunks' = chunks
    /\ UNCHANGED <<now, deletedOk, conn>>

MintRespond(s, b) ==
    /\ req[s].pc = "gotinfo" /\ req[s].kind = "mint"
    /\ Set(s, MintAnswer(req[s], b, now))
    /\ IF req'[s].minted = {} THEN UNCHANGED tokens
       ELSE Handed(MintToken(req[s], b, now))
    /\ UNCHANGED <<now, files, chunks, nextId, deletedOk, conn>>

----------------------------------------------------------------------------
(* The environment: the clock, connections ending *)

(* The client's socket closes while the blob is being piped: pipe() unpipes
   the response and the download stream is paused. Nothing in the handlers
   listens for 'close' or destroys the download stream, so no later step of
   the gateway touches this request again. *)
ClientAbort(s) ==
    /\ req[s].pc = "streaming"
    /\ Set(s, [req[s] EXCEPT !.pc = "aborted"])
    /\ UNCHANGED <<now, files, chunks, nextId, tokens, deletedOk, conn>>

(* The download stream of a read is open from its first read to its end or
   its error. *)
StoreStreamOpen(r) == r.pc \in {"streaming", "aborted"}

Tick ==
    /\ now < MaxTime
    /\ now' = now + 1
    /\ UNCHANGED <<files, chunks, nextId, tokens, req, deletedOk, conn>>

(* The connection of an answered (or stalled) request goes away. *)
Close(s) ==
    /\ req[s].pc \in {"done", "stalled"}
    /\ Set(s, Idle)
    /\ UNCHANGED <<now, files, chunks, nextId, tokens, deletedOk, conn>>

----------------------------------------------------------------------------
(* The database module and the bucket of the store service. A MongoClient
   is named by the order of its creation (0: none), a Db handle by the
   client whose db() returned it, a bucket by the handle it was built on.
   alive holds the clients whose topology is connected. MONGODB_URI is
   set. *)

Callers == 1..NumReq

IdleCall == [pc |-> "idle", op |-> FALSE, mine |-> 0, ret |-> 0, used |-> 0]

Gateway == <<now, files, chunks, nextId, tokens, req, deletedOk>>

(* isConnecting = true; client = new MongoClient(uri); await client.connect() *)
StartConnect(k, c) ==
    [k EXCEPT !.isConnecting = TRUE, !.created = @ + 1, !.client = k.created + 1,
              !.call[c].pc = "connecting", !.call[c].mine = k.created + 1]

(* if (isConnecting) await the 100 ms timer; otherwise go on to connect. *)
Guard(k, c) ==
    IF k.isConnecting THEN [k EXCEPT !.call[c].pc = "waiting"] ELSE StartConnect(k, c)

(* getGridFSBucket: the bucket is built on getDatabase() when there is
   none, and returned as it is otherwise. *)
getGridFSBucket(k, handle) == IF k.bucket = 0 THEN handle ELSE k.bucket

(* return db, and the caller's store operation, if it has one, on the
   bucket getGridFSBucket returns. *)
Return(k, c, handle) ==
    IF k.call[c].op
        THEN [k EXCEPT !.bucket = getGridFSBucket(k, handle), !.call[c].pc = "returned",
                       !.call[c].ret = handle,
                       !.call[c].used = getGridFSBucket(k, handle)]
    ELSE [k EXCEPT !.call[c].pc = "returned", !.call[c].ret = handle]

Throw(k, c) == [k EXCEPT !.isConnecting = FALSE, !.call[c].pc = "thrown"]

(* connectToDatabase up to its first await. *)
Entry(k, c) ==
    IF k.db # 0 /\ k.client # 0
        THEN IF k.client \in k.alive
                THEN Return(k, c, k.db)
             ELSE [k EXCEPT !.call[c].pc = "closing", !.call[c].mine = k.client]
    ELSE Guard(k, c)

Call(c) ==
    /\ conn.call[c].pc = "idle"
    /\ \E op \in BOOLEAN : conn' = Entry([conn EXCEPT !.call[c].op = op], c)
    /\ conn'.created <= MaxClients
    /\ UNCHANGED Gateway

(* After await client.close(): db = null, client = null, then the guard. *)
AfterClose(c) ==
    /\ conn.call[c].pc = "closing"
    /\ conn' = Guard([conn EXCEPT !.db = 0, !.client = 0,
                                  !.alive = @ \ {conn.call[c].mine}], c)
    /\ conn'.created <= MaxClients
    /\ UNCHANGED Gateway

(* After the 100 ms: if (db) return db; otherwise straight on to connect,
   whatever isConnecting says. *)
AfterWait(c) ==
    /\ conn.call[c].pc = "waiting"
    /\ conn' = IF conn.db # 0 THEN Return(conn, c, conn.db) ELSE StartConnect(conn, c)
    /\ conn'.created <= MaxClients
    /\ UNCHANGED Gateway

(* After await client.connect(): db = client.db() on the module's client
   of that moment (a TypeError when it is null, caught and rethrown),
   isConnecting = false, return db. *)
Connected(c) ==
    /\ conn.call[c].pc = "connecting"
    /\ LET k == [conn EXCEPT !.alive = @ \cup {conn.call[c].mine}] IN
       conn' = IF k.client = 0 THEN Throw(k, c)
               ELSE Return([k EXCEPT !.db = k.client, !.isConnecting = FALSE], c, k.client)
    /\ UNCHANGED Gateway

(* client.connect() rejects: isConnecting = false; throw. *)
ConnectFails(c) ==
    /\ conn.call[c].pc = "connecting"
    /\ conn' = Throw(conn, c)
    /\ UNCHANGED Gateway

(* The caller's request is over. *)
Done(c) ==
    /\ conn.call[c].pc \in {"returned", "thrown"}
    /\ conn' = [conn EXCEPT !.call[c] = IdleCall]
    /\ UNCHANGED Gateway

(* The connection of a client is lost: topology.isConnected() turns false. *)
Lose ==
    /\ \E x \in conn.alive : conn' = [conn EXCEPT !.alive = @ \ {x}]
    /\ UNCHANGED Gateway

NextDb ==
    \/ \E c \in Callers : Call(c)
    \/ \E c \in Callers : AfterClose(c)
    \/ \E c \in Callers : AfterWait(c)
    \/ \E c \in Callers : Connected(c)
    \/ \E c \in Callers : ConnectFails(c)
    \/ \E c \in Callers : Done(c)
    \/ Lose

----------------------------------------------------------------------------

Init ==
    /\ conn = [client |-> 0, db |-> 0, isConnecting |-> FALSE, bucket |-> 0,
               created |-> 0, alive |-> {}, call |-> [c \in Callers |-> IdleCall]]
    /\ now = 0
    /\ files = <<>>
    /\ chunks = <<>>
    /\ nextId = 1
    /\ tokens = {}
    /\ req = [s \in Slots |-> Idle]
    /\ deletedOk = {}

----------------------------------------------------------------------------
(* Whole handlers: a request served from arrival to its answer with no other
   request in between. *)

RECURSIVE Drain(_)
(* pipe(res) until the stream ends or fails. *)
Drain(r) == IF r.pc = "streaming" THEN Drain(StreamChunk(r)) ELSE r

(* validateFileAccess, then streamFileHandler / downloadFileHandler /
   getFileMetadataHandler. *)
ServeRead(r0) ==
    LET r1 == IF r0.pc = "handler" THEN GetInfoStep(r0, ReadFailure(r0.kind)) ELSE r0
        r2 == IF r1.pc = "gotinfo" THEN ReadAnswer(r1) ELSE r1
        r3 == IF r2.pc = "piping" THEN StreamOpen(r2) ELSE r2
    IN Drain(r3)

ReadRequest(s, kind, id, t) ==
    /\ req[s].kind = "idle"
    /\ Set(s, ServeRead(validateFileAccess(
                  [Idle EXCEPT !.kind = kind, !.pc = "mw", !.id = id, !.tok = t], now)))
    /\ UNCHANGED <<now, files, chunks, nextId, tokens, deletedOk, conn>>

HandleRead ==
    \E kind \in ReadKinds, id \in PathIds, t \in Presentable : ReadRequest(1, kind, id, t)

(* requireAuth, then deleteFileHandler. *)
HandleDelete ==
    /\ req[1].kind = "idle"
    /\ \E id \in PathIds, t \in Presentable :
         LET r0 == requireAuth(
                    [Idle EXCEPT !.kind = "delete", !.pc = "auth", !.id = id, !.tok = t,
                                 !.live = id \in DOMAIN files], now)
             count == IF id \in DOMAIN files THEN 1 ELSE 0
         IN IF r0.pc # "handler"
              THEN Set(1, r0) /\ UNCHANGED <<files, chunks, deletedOk>>
            ELSE IF ~IsObjectId(id)
              THEN Set(1, DeleteAnswer(r0, FALSE)) /\ UNCHANGED <<files, chunks, deletedOk>>
            ELSE /\ files' = Remove(files, id)
                 /\ chunks' = Remove(chunks, id)
                 /\ Set(1, DeleteAnswer([r0 EXCEPT !.consulted = TRUE, !.deletedCount = count],
                                        deleteFileResult(count)))
                 /\ deletedOk' = IF deleteFileResult(count)
                                    THEN deletedOk \cup {id} ELSE deletedOk
    /\ UNCHANGED <<now, nextId, tokens, conn>>

(* uploadFileHandler / simpleUploadHandler / storeBase64Image on a file that
   multer let through: the store takes k of the n chunks and then, when
   stored, the file document; otherwise it rejects the write after k chunks. *)
HandleUpload ==
    /\ req[1].kind = "idle"
    /\ nextId <= MaxIds
    /\ \E kind \in UploadKinds, n \in 0..MaxLen, k \in 0..MaxLen, stored \in BOOLEAN,
           u \in {""}, e \in Expiries :
       \E f \in Accepted(kind) :
         LET r == [Idle EXCEPT !.kind = kind, !.pc = "stored", !.size = n, !.upId = nextId,
                               !.file = f, !.body = UploadBody(u, e)]
             t == UploadToken(r, u, e, now)
         IN /\ k <= n
            /\ stored => k = n
            /\ nextId' = nextId + 1
            /\ chunks' = IF k = 0 THEN chunks
                          ELSE [x \in DOMAIN chunks \cup {nextId} |->
                                  IF x = nextId THEN SubSeq(Buffer(n), 1, k) ELSE chunks[x]]
            /\ IF ~stored
                 THEN /\ Set(1, UploadFailure(r, "store error"))
                      /\ UNCHANGED <<files, tokens>>
                 ELSE /\ files' = [x \in DOMAIN files \cup {nextId} |->
                                     IF x = nextId THEN FileDoc(SubSeq(Buffer(n), 1, k)) ELSE files[x]]
                      /\ IF SignThrows(UploadExpiry(kind, e))
                           THEN Set(1, UploadFailure(r, "sign error")) /\ UNCHANGED tokens
                           ELSE Set(1, UploadSuccess(r, t)) /\ Handed(t)
    /\ UNCHANGED <<now, deletedOk, conn>>

(* A request without a file part: 400 before anything else. *)
HandleNoFile ==
    /\ req[1].kind = "idle"
    /\ \E kind \in {"upload", "simple"} :
          Set(1, Json([Idle EXCEPT !.kind = kind], 400,
                      "No file provided", "Please upload a file"))
    /\ UNCHANGED <<now, files, chunks, nextId, tokens, deletedOk, conn>>

(* An upload whose file part multer refuses: next(err) skips the handler and
   reaches the error-handling middleware of index.ts, which answers 500
   (with err.message only when NODE_ENV is development). *)
HandleRefused ==
    /\ req[1].kind = "idle"
    /\ \E kind \in {"upload", "simple"}, f \in FileParts :
          /\ MulterError(kind, f) # ""
          /\ Set(1, Json([Idle EXCEPT !.kind = kind, !.file = f], 500,
                          "Internal server error", "Something went wrong"))
    /\ UNCHANGED <<now, files, chunks, nextId, tokens, deletedOk, conn>>

(* generateSignedUrlHandler on the path id and the body b. *)
MintRequest(id, b) ==
    /\ req[1].kind = "idle"
    /\ LET r == GetInfoStep([Idle EXCEPT !.kind = "mint", !.pc = "handler", !.id = id],
                            "Failed to generate signed URL")
       IN IF r.pc # "gotinfo"
            THEN Set(1, [r EXCEPT !.body = b]) /\ UNCHANGED tokens
          ELSE /\ Set(1, MintAnswer(r, b, now))
               /\ IF req'[1].minted = {} THEN UNCHANGED tokens
                  ELSE Handed(MintToken(r, b, now))
    /\ UNCHANGED <<now, files, chunks, nextId, deletedOk, conn>>

HandleMint == \E id \in PathIds, b \in Bodies : MintRequest(id, b)

(* getFileInfoHandler behind optionalAuth, which lets every request pass:
   500 when getFileInfo throws, 404 when it finds nothing, else the file's
   document. *)
HandleInfo ==
    /\ req[1].kind = "idle"
    /\ \E id \in PathIds :
         LET r == GetInfoStep([Idle EXCEPT !.kind = "info", !.pc = "handler", !.id = id],
                              "Failed to get file info")
         IN IF r.pc # "gotinfo" THEN Set(1, r)
            ELSE IF ~r.info.found
              THEN Set(1, Json(r, 404, "File not found",
                               "The requested file does not exist"))
            ELSE Set(1, [Ok(r, 200) EXCEPT !.meta = {r.info.id}])
    /\ UNCHANGED <<now, files, chunks, nextId, tokens, deletedOk, conn>>

Quiet == \A s \in Slots : req[s].kind = "idle"

(* Every form of req.body.permissions: also the empty string, a single
   name, strings with nothing before or after a comma, and the empty array. *)
AllPerms ==
    PermInputs \cup {[form |-> "string", items |-> str] :
                        str \in {<<>>, <<"read">>, <<",">>, <<"read", ",">>}}
               \cup {[form |-> "array", items |-> <<>>]}

(* Every request body for the mint endpoint, and every options argument for
   the service (whose permissions are left out or an array). *)
AllBodies ==
    {[userId |-> u, permissions |-> p, expiry |-> e, metadata |-> m] :
        u \in Users \cup {""}, p \in AllPerms, e \in Expiries, m \in {"", "purpose"}}

Options == {b \in AllBodies : b.permissions.form # "string"}

(* options.permissions as the service receives it. *)
Permissions(b) ==
    IF b.permissions.form = "none" THEN Unset ELSE Given(b.permissions.items)

(* A caller inside the server calls generateSignedUrl(fileId, options): the
   URL for fileId with the token, or jwt.sign's throw. *)
CallMint ==
    /\ req[1].kind = "idle"
    /\ \E fileId \in ObjectIds, b \in Options :
         LET r == [Idle EXCEPT !.kind = "call", !.id = fileId, !.body = b]
             t == generateSignedUrl(fileId, b.userId, Permissions(b), b.metadata,
                                    b.expiry, now)
         IN IF SignThrows(b.expiry)
              THEN /\ Set(1, [r EXCEPT !.pc = "done", !.result = "throw"])
                   /\ UNCHANGED tokens
            ELSE /\ Set(1, [r EXCEPT !.pc = "done", !.minted = {t}, !.url = fileId])
                 /\ Handed(t)
    /\ UNCHANGED <<now, files, chunks, nextId, deletedOk, conn>>

(* Time passes between two requests. *)
Between == Quiet /\ Tick

(* One request at a time, every kind of request. *)
Next ==
    \/ HandleRead
    \/ HandleDelete
    \/ HandleUpload
    \/ HandleNoFile
    \/ HandleRefused
    \/ HandleMint
    \/ HandleInfo
    \/ Close(1)
    \/ Between

Spec == Init /\ [][Next]_vars

----------------------------------------------------------------------------
(* Concurrent requests, each advancing from one await to the next. The
   requests followed are those of rightful clients: a read with the signed
   URL's token, a delete with an identity token, an upload of MaxLen chunks,
   and the defaults for every optional field. *)

AuthorizedRead(s) ==
    \E kind \in ReadKinds, id \in ObjectIds, t \in tokens :
        StartRead(s, kind, id, t) /\ req'[s].pc = "handler"

AuthorizedDelete(s) ==
    \E id \in PathIds, t \in Identities :
        StartDelete(s, id, t) /\ req'[s].pc = "handler"

NextConc ==
    \/ \E s \in Slots : AuthorizedRead(s)
    \/ \E s \in Slots : ReadGetInfo(s)
    \/ \E s \in Slots : ReadRespond(s)
    \/ \E s \in Slots : ReadOpen(s)
    \/ \E s \in Slots : ReadChunk(s)
    \/ \E s \in Slots : AuthorizedDelete(s)
    \/ \E s \in Slots : DeleteFilesDoc(s)
    \/ \E s \in Slots : DeleteChunks(s)
    \/ \E s \in Slots : DeleteReturn(s)
    \/ \E s \in Slots, kind \in UploadKinds : StartUpload(s, kind, MaxLen)
    \/ \E s \in Slots : UploadOpen(s)
    \/ \E s \in Slots : UploadWrite(s)
    \/ \E s \in Slots : UploadError(s)
    \/ \E s \in Slots : UploadFinish(s)
    \/ \E s \in Slots : UploadMint(s, "", "")
    \/ \E s \in Slots, id \in ObjectIds : StartMint(s, id)
    \/ \E s \in Slots : MintGetInfo(s)
    \/ \E s \in Slots : MintRespond(s, NoBody)
    \/ \E s \in Slots : Close(s)

SpecConc == Init /\ [][NextConc]_vars

----------------------------------------------------------------------------
(* Concurrent readers: uploads of every size through POST /api/upload, reads
   with the signed URL's token, and deletes, each advancing from one await
   to the next. *)

NextReaders ==
    \/ \E s \in Slots : AuthorizedRead(s)
    \/ \E s \in Slots : ReadGetInfo(s)
    \/ \E s \in Slots : ReadRespond(s)
    \/ \E s \in Slots : ReadOpen(s)
    \/ \E s \in Slots : ReadChunk(s)
    \/ \E s \in Slots : AuthorizedDelete(s)
    \/ \E s \in Slots : DeleteFilesDoc(s)
    \/ \E s \in Slots : DeleteChunks(s)
    \/ \E s \in Slots : DeleteReturn(s)
    \/ \E s \in Slots, n \in 0..MaxLen : StartUpload(s, "simple", n)
    \/ \E s \in Slots : UploadOpen(s)
    \/ \E s \in Slots : UploadWrite(s)
    \/ \E s \in Slots : UploadError(s)
    \/ \E s \in Slots : UploadFinish(s)
    \/ \E s \in Slots : UploadMint(s, "", "")
    \/ \E s \in Slots : Close(s)

SpecReaders == Init /\ [][NextReaders]_vars

----------------------------------------------------------------------------
(* Minting: uploads, the mint endpoint with every form of body, and calls of
   the service, one at a time, with the clock moving between them. *)

NextMint ==
    \/ HandleUpload /\ req'[1].size = MaxLen /\ req'[1].message # "store error"
    \/ \E id \in PathIds, b \in AllBodies : MintRequest(id, b)
    \/ CallMint
    \/ Close(1)
    \/ Between

SpecMint == Init /\ [][NextMint]_vars

(* The database module under concurrent callers and lost connections. *)
SpecDb == Init /\ [][NextDb]_vars

----------------------------------------------------------------------------
(* Presentations: while the answer of one read is still on its connection,
   a second connection presents the same token again, or one the client
   holds; uploads and the clock between the requests. *)

Present ==
    \E id \in PathIds, t \in Presentable : ReadRequest(1, "stream", id, t)

PresentAgain ==
    \E id \in PathIds, t \in {req[1].tok} \cup tokens : ReadRequest(2, "stream", id, t)

NextVerify ==
    \/ Present
    \/ PresentAgain
    \/ HandleUpload /\ req'[1].size = MaxLen /\ req'[1].message # "store error"
    \/ \E s \in Slots : Close(s)
    \/ Between

SpecVerify == Init /\ [][NextVerify]_vars

----------------------------------------------------------------------------
(* Streams: uploads through slot 1, deletes through slot 1 one write at a
   time, reads through slot 2 one await and one chunk at a time, the clock
   advancing between requests and while bytes are being piped, and clients
   that go away early. The event loop runs every step of the gateway that
   is ready; clients are under no such obligation. *)

Elapse == Tick /\ req[2].pc = "streaming" /\ req[2].headersSent

Serve(s) ==
    \/ ReadGetInfo(s)
    \/ ReadRespond(s)
    \/ ReadOpen(s)
    \/ ReadChunk(s)
    \/ DeleteFilesDoc(s)
    \/ DeleteChunks(s)
    \/ DeleteReturn(s)

NextStream ==
    \/ HandleUpload /\ req'[1].kind = "simple" /\ req'[1].size = MaxLen /\ req'[1].status = 201
    \/ AuthorizedRead(2)
    \/ AuthorizedDelete(1)
    \/ \E s \in Slots : Serve(s)
    \/ ClientAbort(2)
    \/ \E s \in Slots : Close(s)
    \/ Elapse
    \/ Between

SpecStream == Init /\ [][NextStream]_vars /\ \A s \in Slots : WF_vars(Serve(s))

----------------------------------------------------------------------------
(* Properties of the gateway. Under Spec a request is served in one step and
   the clock moves only between requests, so in the state that holds an
   answered request `now` is the time of its validation. *)

(* The token's signature verifies under the service's key. *)
Intact(t) == t.form = "jwt" /\ t.sig = Sign(t.claims, JWT_SECRET)

(* The token passes validateToken now, and names the path's id. *)
Valid(t) == Intact(t) /\ t.claims.exp > now
Bound(r) == Valid(r.tok) /\ r.tok.claims.fileId = r.id

(* C1: on stream, download and metadata the handler is reached only with a
   token whose signature verified, whose expiry was in the future when it
   was validated and whose fileId is the path's id; in every other case no
   byte and no metadata of any blob is sent. *)
C1_HandlerOnlyWithBoundToken ==
    \A s \in Slots : req[s].kind \in ReadKinds =>
        LET r == req[s] IN
        /\ (r.nextCalls > 0 \/ r.hasAccess \/ r.consulted) => Bound(r)
        /\ ~Bound(r) => /\ r.sent = <<>>
                        /\ r.meta = {}
                        /\ r.status \in {401, 403}

(* A download that passed the gate and delivered the blob's bytes. *)
C1_Witness ==
    /\ req[1].kind = "download"
    /\ req[1].hasAccess
    /\ req[1].status = 200
    /\ req[1].sent # <<>>

(* C2: a validly signed, unexpired token minted for blob A, presented on the
   path of another id B, is answered 403 whatever its permissions, subject
   and metadata and whether or not B is stored, and the answer names both A
   and B; the store is not consulted. *)
C2_OtherIdForbidden ==
    \A s \in Slots :
        LET r == req[s] IN
        (/\ r.kind \in ReadKinds
         /\ Valid(r.tok)
         /\ IsObjectId(r.tok.claims.fileId)
         /\ r.tok.claims.fileId # r.id)
        => /\ r.status = 403
           /\ r.ids = <<r.tok.claims.fileId, r.id>>
           /\ r.nextCalls = 0
           /\ ~r.consulted
           /\ r.sent = <<>>
           /\ r.meta = {}

(* Alice's read+download token for one stored blob, refused on another. *)
C2_Witness ==
    /\ req[1].kind \in ReadKinds
    /\ req[1].status = 403
    /\ req[1].id \in DOMAIN files
    /\ req[1].tok.claims.fileId \in DOMAIN files
    /\ req[1].tok.claims.userId = "alice"
    /\ req[1].tok.claims.permissions = <<"read", "download">>

(* Once validateToken has answered 'Token has expired' for a token, it never
   answers valid for it at a later clock value. *)
ExpiredForGood ==
    \A t \in Presentable : \A c \in now..(MaxTime + 1) :
        validateToken(t, now).error = "Token has expired" => ~validateToken(t, c).valid

(* C3 as stated: every token whose expiry is not after the current time
   fails with 'Token has expired' (401); one whose expiry is after it, with
   signature and structure intact, passes; an expired token stays expired. *)
C3_ExpiredAlwaysReported ==
    /\ \A s \in Slots :
          LET r == req[s] IN
          (r.kind \in ReadKinds /\ r.tok.form = "jwt") =>
              /\ r.tok.claims.exp <= now =>
                    r.status = 401 /\ r.message = "Token has expired"
              /\ (r.tok.claims.exp > now /\ Intact(r.tok)) => r.status # 401
    /\ ExpiredForGood

(* C3, restricted to tokens whose signature and structure are intact: such a
   token fails with 'Token has expired' (401) exactly when its expiry is not
   after the current time, and passes validation otherwise; an expired token
   stays expired. *)
C3_ExpiryOfIntactTokens ==
    /\ \A s \in Slots :
          LET r == req[s] IN
          (r.kind \in ReadKinds /\ Intact(r.tok)) =>
              /\ r.tok.claims.exp <= now =>
                    /\ r.status = 401
                    /\ r.message = "Token has expired"
                    /\ ~r.hasAccess
              /\ r.tok.claims.exp > now =>
                    /\ r.status # 401
                    /\ r.hasAccess \/ r.status = 403
    /\ ExpiredForGood

(* An intact token presented in the second of its expiry. *)
C3_Witness ==
    /\ req[1].kind \in ReadKinds
    /\ Intact(req[1].tok)
    /\ req[1].tok.claims.exp = now
    /\ req[1].tok.claims.fileId = req[1].id
    /\ req[1].status = 401

(* C4: a token whose signature segment was altered fails verification with
   the reason the service gives a signature mismatch ('Invalid token
   format'); it never passes and never reports 'Token has expired', also
   when its expiry has passed. *)
C4_AlteredSignatureRejected ==
    /\ \A t \in Held :
          /\ ~validateToken(TamperSig(t), now).valid
          /\ validateToken(TamperSig(t), now).error = "Invalid token format"
    /\ \A s \in Slots :
          LET r == req[s] IN
          (r.kind \in ReadKinds /\ r.tok.form = "jwt" /\ ~Intact(r.tok)) =>
              /\ r.status = 401
              /\ r.message = "Invalid token format"
              /\ r.message # "Token has expired"
              /\ ~r.hasAccess
              /\ r.sent = <<>>

(* A token with an altered signature presented after its expiry. *)
C4_Witness ==
    /\ req[1].kind \in ReadKinds
    /\ req[1].tok.sig.key = "flipped"
    /\ req[1].tok.claims.fileId = req[1].id
    /\ req[1].tok.claims.exp <= now
    /\ req[1].status = 401

(* Why a token is refused with 401, and the body of the refusal. *)
Cause(t) ==
    IF t.form = "none" THEN "missing"
    ELSE IF t.form # "jwt" THEN "malformed"
    ELSE IF ~Intact(t) THEN "bad signature"
    ELSE IF t.claims.exp <= now THEN "expired"
    ELSE "none"

Reason(t) ==
    LET r == validateFileAccess([Idle EXCEPT !.tok = t], now) IN <<r.error, r.message>>

(* C5: a 401 carries a reason that tells the four causes apart (token
   missing, expired, malformed, bad signature): no two distinct causes give
   the same reason. *)
C5_DistinctReasons ==
    \A t1, t2 \in Presentable :
        (Cause(t1) # "none" /\ Cause(t2) # "none" /\ Cause(t1) # Cause(t2))
            => Reason(t1) # Reason(t2)

(* A token with a bad signature refused with the body a malformed one gets. *)
C5_Witness ==
    /\ req[1].kind \in ReadKinds
    /\ req[1].status = 401
    /\ Cause(req[1].tok) = "bad signature"
    /\ <<req[1].error, req[1].message>> = Reason(Garbage)

(* C6: a read is decided in a fixed order and answered once: a missing or
   invalid token gives 401 before the ids are compared; a valid token bound
   to another id gives 403 before the store is consulted; only a valid bound
   token yields 404 or 200; next() is called at most once and not by a
   middleware that has answered. *)
C6_FixedOrderOneAnswer ==
    \A s \in Slots : req[s].kind \in ReadKinds =>
        LET r == req[s] IN
        /\ r.responses <= 1
        /\ r.nextCalls <= 1
        /\ r.pc = "done" => r.responses = 1
        /\ ~Valid(r.tok) =>
              r.status = 401 /\ r.ids = <<>> /\ ~r.consulted /\ r.nextCalls = 0
        /\ (Valid(r.tok) /\ ~Bound(r)) =>
              r.status = 403 /\ ~r.consulted /\ r.nextCalls = 0
        /\ r.status \in {200, 404} => Bound(r) /\ r.consulted /\ r.nextCalls = 1
        /\ r.nextCalls = 1 => r.status \notin {401, 403}

(* A valid bound token for a blob that is gone: 404 from the handler. *)
C6_Witness ==
    /\ req[1].kind = "stream"
    /\ req[1].nextCalls = 1
    /\ req[1].status = 404

(* C7: a delete is authorized only by an identity credential: without a
   valid identity bearer token it is answered 401 and the store is not
   touched; the token of a signed URL never authorizes a delete. *)
C7_DeleteNeedsIdentity ==
    \A s \in Slots : req[s].kind = "delete" =>
        LET r == req[s] IN
        (Valid(r.tok) /\ r.tok \in Identities)
        \/ (r.status = 401 /\ ~r.hasUser /\ ~r.consulted /\ r.result = "")

(* The token of one blob's signed URL, as bearer, deleted another blob. *)
C7_Witness ==
    /\ req[1].kind = "delete"
    /\ req[1].result = "true"
    /\ IsObjectId(req[1].tok.claims.fileId)
    /\ req[1].tok.claims.fileId # req[1].id

(* In every state the ids deleteFile has answered true for resolve nowhere,
   are never drawn again, and a read that passed the gate for one is 404. *)
DeletedIsGone ==
    \A id \in deletedOk :
        /\ ~getFileInfo(id).found
        /\ downloadFile(id).error = "FileNotFound"
        /\ id \notin listFiles
        /\ id < nextId
        /\ \A s \in Slots :
              (req[s].kind \in ReadKinds /\ req[s].id = id /\ req[s].hasAccess)
                  => req[s].status = 404 /\ req[s].sent = <<>>

(* A delete that arrives for such an id is not answered true: it is
   answered false (404) when it is authorized. *)
DeleteAgainIsFalse ==
    \A s \in Slots :
        (req[s].kind = "idle" /\ req'[s].kind = "delete" /\ req'[s].id \in deletedOk)
            => /\ req'[s].result # "true"
               /\ req'[s].hasUser => req'[s].result = "false" /\ req'[s].status = 404

(* C8: after deleteFile(id) has returned true, in every later state
   downloadFile(id) fails with FileNotFound, getFileInfo(id) is null, a read
   with a still valid token for id is answered 404 and any further delete of
   id returns false; the id never resolves again whatever uploads follow. *)
C8_DeletedStaysDeleted == []DeletedIsGone /\ [][DeleteAgainIsFalse]_vars

(* A read of a deleted blob answered 404 while a later upload is stored. *)
C8_Witness ==
    /\ req[1].kind \in ReadKinds
    /\ req[1].id \in deletedOk
    /\ req[1].hasAccess
    /\ req[1].status = 404
    /\ \E id \in DOMAIN files : id > req[1].id

(* The deletes of id in flight, and those of them that found the blob
   stored when they arrived. *)
Deletes(id) == {s \in Slots : req[s].kind = "delete" /\ req[s].id = id}
Deleting(id) == {s \in Deletes(id) : req[s].live}

(* C9: when several deleteFile(id) calls for one stored blob run
   concurrently, in every interleaving exactly one of them returns true and
   every other returns false, none raises an error, and afterwards the
   blob's file document and all its chunks are gone. *)
C9_OneDeleteWins ==
    \A id \in ObjectIds :
        LET done == {s \in Deletes(id) : req[s].pc = "done" /\ req[s].hasUser}
            true == {s \in done : req[s].result = "true"}
        IN /\ Cardinality(true) <= 1
           /\ \A s \in done :
                 /\ req[s].result \in {"true", "false"}
                 /\ req[s].status = IF req[s].result = "true" THEN 200 ELSE 404
                 /\ req[s].live => id \notin DOMAIN files /\ id \notin DOMAIN chunks
           /\ (true = {} /\ Deleting(id) \cap done # {}) =>
                 id \in deletedOk \/ \E s \in Deletes(id) : req[s].deletedCount = 1
           /\ (Deleting(id) \cap done = Slots) => Cardinality(true) = 1

(* Every connection is a delete of blob 1 that arrived while it was stored,
   and all of them have been answered. *)
C9_Witness ==
    \A s \in Slots :
        req[s].kind = "delete" /\ req[s].id = 1 /\ req[s].live /\ req[s].pc = "done"

(* The uploads whose stream is open: the id is drawn, the file document is
   not yet inserted. *)
InProgress == {s \in Slots : req[s].kind \in UploadKinds /\ req[s].pc = "writing"}

(* The upload of id completed at some time: its file document is stored, or
   a delete has removed it. *)
Completed(id) ==
    \/ id \in DOMAIN files
    \/ id \in deletedOk
    \/ \E s \in Slots : req[s].kind = "delete" /\ req[s].id = id /\ req[s].deletedCount = 1

(* The capability tokens minted so far that are still in some hand. *)
Minted == tokens \cup UNION {req[s].minted : s \in Slots}

(* C10: no id is observable through getFileInfo, downloadFile or listFiles
   while its upload is in progress, and every token minted by an upload, by
   storeBase64Image or by the mint endpoint names an id whose upload had
   completed before the token was minted. *)
C10_NoIdBeforeCompletion ==
    /\ \A s \in InProgress :
          LET id == req[s].upId IN
          /\ ~getFileInfo(id).found
          /\ downloadFile(id).error = "FileNotFound"
          /\ id \notin listFiles
          /\ \A o \in Slots :
                /\ req[o].info.found => req[o].info.id # id
                /\ id \notin req[o].meta
                /\ req[o].sent # <<>> => req[o].id # id
    /\ \A t \in Minted : Completed(t.claims.fileId)

(* An upload has written a chunk and is not finished while the mint
   endpoint answers with a token for an earlier blob. *)
C10_Witness ==
    \E s, o \in Slots :
        /\ s \in InProgress
        /\ Written(req[s].upId) # <<>>
        /\ req[o].kind = "mint"
        /\ req[o].minted # {}

----------------------------------------------------------------------------
(* C11: when the store rejects the write during an upload, the request ends
   with a 500-class response (storeBase64Image, which has no response, throws),
   no token is minted, and no blob of that upload is addressable afterwards:
   info finds nothing under its id, get fails with FileNotFound, list does not
   show it, and the request leaves the file documents and the clients' tokens
   as they were. *)

StoreRejected(r) ==
    r.kind \in UploadKinds /\ r.pc = "done" /\ r.message = "store error"

NothingOfRejectedUpload ==
    \A s \in Slots :
        StoreRejected(req[s]) =>
            /\ IF req[s].kind = "generated"
                  THEN req[s].result = "throw" /\ req[s].responses = 0
                  ELSE req[s].status = 500 /\ req[s].responses = 1
            /\ req[s].minted = {}
            /\ \A t \in tokens : t.claims.fileId # req[s].upId
            /\ ~getFileInfo(req[s].upId).found
            /\ downloadFile(req[s].upId).error = "FileNotFound"
            /\ req[s].upId \notin listFiles

RejectedUploadChangesNothing ==
    (req[1].kind = "idle" /\ StoreRejected(req'[1])) =>
        /\ listFiles' = listFiles
        /\ tokens' = tokens
        /\ \A id \in ObjectIds :
              /\ getFileInfo(id)' = getFileInfo(id)
              /\ downloadFile(id)' = downloadFile(id)

C11_RejectedUploadLeavesNothing ==
    []NothingOfRejectedUpload /\ [][RejectedUploadChangesNothing]_vars

(* An upload that the store rejected after it had taken a chunk, while
   another blob is stored. *)
C11_Witness ==
    /\ StoreRejected(req[1])
    /\ req[1].upId \in DOMAIN chunks
    /\ listFiles # {}

----------------------------------------------------------------------------
(* C12: for any byte sequence B stored by an upload, every reader that
   completes a read of its id has received exactly B, in order, also while
   another reader streams the same id; the size the upload reports and the
   Content-Length of a read (the length getFileInfo found) both equal the
   length of B. A reader still streaming has received a prefix of B. *)

ByteReaders == {s \in Slots : req[s].kind \in {"stream", "download"}}

C12_ReadersReceiveExactlyB ==
    /\ \A s \in Slots :
          (req[s].kind \in UploadKinds /\ req[s].result = "stored"
                /\ req[s].upId \in DOMAIN files) =>
              files[req[s].upId].length = req[s].size
    /\ \A s \in ByteReaders :
          /\ (req[s].pc = "done" /\ req[s].status = 200) =>
                /\ req[s].ended
                /\ req[s].sent = Buffer(req[s].info.length)
                /\ Len(req[s].sent) = req[s].info.length
          /\ req[s].pc \in {"streaming", "stalled"} =>
                /\ Len(req[s].sent) < req[s].info.length
                /\ req[s].sent = SubSeq(Buffer(req[s].info.length), 1, Len(req[s].sent))

(* Two readers of one blob of MaxLen chunks at once: one has finished, the
   other is halfway. *)
C12_Witness ==
    /\ ByteReaders = Slots
    /\ req[1].id = req[2].id
    /\ req[1].pc = "done" /\ req[1].status = 200 /\ req[1].sent = Buffer(MaxLen)
    /\ req[2].pc = "streaming" /\ Len(req[2].sent) = 1

----------------------------------------------------------------------------
(* C13: an upload whose multipart body has a file part within the size
   limit, whatever the file's name and content type, ends in 201 with the
   file's id and a signed URL whose token is valid for the stored blob
   (unless the store or the signing itself fails). *)

WithinLimit(r) ==
    /\ r.kind \in {"upload", "simple"} /\ r.pc = "done"
    /\ r.file # NoFile /\ r.file.mb <= LimitFileSize(r.kind)

C13_AnyFileUploads ==
    \A s \in Slots :
        (WithinLimit(req[s]) /\ req[s].message \notin {"store error", "sign error"}) =>
            /\ req[s].status = 201
            /\ req[s].id \in DOMAIN files
            /\ \E t \in req[s].minted :
                  validateToken(t, now).valid /\ t.claims.fileId = req[s].id

(* A small text file a.txt, text/plain, was sent to POST /api/files/upload
   and answered 500 with nothing stored. *)
C13_Witness ==
    /\ WithinLimit(req[1]) /\ req[1].kind = "upload"
    /\ req[1].file.originalname = <<"a", ".", "txt">>
    /\ req[1].file.mimetype = <<"text", "/", "plain">>
    /\ req[1].status = 500 /\ req[1].minted = {}
    /\ files = <<>> /\ chunks = <<>>

----------------------------------------------------------------------------
(* C14: an upload larger than the configured maximum object size is answered
   413 as a JSON error, never 500, and nothing is stored and no token is
   minted for it. *)

OverLimit(r) ==
    /\ r.kind \in {"upload", "simple"} /\ r.pc = "done"
    /\ r.file # NoFile /\ r.file.mb > LimitFileSize(r.kind)

C14_TooLargeIs413 ==
    \A s \in Slots :
        OverLimit(req[s]) =>
            /\ req[s].status = 413
            /\ req[s].minted = {} /\ req[s].upId = InvalidId

(* An image over the limit was answered 500 by the error middleware, with
   nothing stored and no token minted. *)
C14_Witness ==
    /\ OverLimit(req[1]) /\ fileFilter(req[1].kind, req[1].file)
    /\ req[1].status = 500 /\ req[1].error = "Internal server error"
    /\ req[1].minted = {} /\ req[1].upId = InvalidId
    /\ files = <<>> /\ chunks = <<>>

----------------------------------------------------------------------------
(* C15: every gateway operation that names an id which does not resolve to
   a live blob (the mint endpoint, info, and stream, download and metadata
   once a valid token bound to that id has passed the gate) answers 404 and
   mints no token, for every id string, also one that is not in the store's
   id format; it never answers 500. *)

Unresolved(r) ==
    /\ r.pc = "done"
    /\ r.kind \in {"mint", "info"} \/ (r.kind \in ReadKinds /\ r.nextCalls = 1)
    /\ r.id \notin DOMAIN files

C15_UnresolvedIdIs404 ==
    \A s \in Slots : Unresolved(req[s]) => req[s].status = 404 /\ req[s].minted = {}

(* The info endpoint and the mint endpoint, asked about a string that is no
   ObjectId, answer 500 while a blob is stored. *)
C15_Witness ==
    /\ Unresolved(req[1]) /\ req[1].kind \in {"mint", "info"}
    /\ ~IsObjectId(req[1].id)
    /\ req[1].status = 500 /\ req[1].minted = {}
    /\ files # <<>>

----------------------------------------------------------------------------
(* C16: delete and info give the same results on an id that never existed
   as on an id that existed and was deleted: getFileInfo returns null (the
   info endpoint answers 404) and deleteFile returns false (the delete
   endpoint answers 404), with no error raised, whether or not the id is one
   that deleteFile once answered true for. Ids are ids of the store's format. *)

Absent(id) == IsObjectId(id) /\ id \notin DOMAIN files

----------------------------------------------------------------------------
(* C17: for an existing blob, a mint request whose body gives permissions as
   a list, together with a userId and an expiry, is answered 200 with a
   signed URL whose token carries exactly those permissions, and the
   answer's permissions field equals them. *)

ListMint(r) ==
    /\ r.kind = "mint" /\ r.pc = "done" /\ r.info.found
    /\ r.body.permissions.form = "array"
    /\ r.body.userId # ""
    /\ r.body.expiry # "" /\ ~SignThrows(r.body.expiry)

C17_ListPermissionsMinted ==
    \A s \in Slots :
        ListMint(req[s]) =>
            /\ req[s].status = 200
            /\ \E t \in req[s].minted :
                  t.claims.permissions = req[s].body.permissions.items
            /\ req[s].answer.permissions = req[s].body.permissions.items

(* The body {permissions: [read, download], userId, expiry} for a stored
   blob was answered 500 and no token was minted. *)
C17_Witness ==
    /\ ListMint(req[1])
    /\ req[1].body.permissions.items = <<"read", "download">>
    /\ req[1].status = 500 /\ req[1].error = "Failed to generate signed URL"
    /\ req[1].minted = {}

----------------------------------------------------------------------------
(* C18: a token minted without an explicit expiry expires 5 minutes after
   minting when the mint endpoint grants it and 24 hours after minting when
   an upload or the storing of a generated image mints it; a supplied expiry
   always overrides the default. (While a request is answered the clock of
   Spec stands still, so `now` is the minting time.) *)

Granted(r) == r.pc = "done" /\ r.kind \in MintKinds /\ r.minted # {}

C18_ExpiryDefaults ==
    \A s \in Slots :
        Granted(req[s]) =>
            \A t \in req[s].minted :
                t.claims.exp = now + Timespan(
                    IF req[s].body.expiry # "" THEN req[s].body.expiry
                    ELSE IF req[s].kind = "mint" THEN "5m" ELSE "24h")

(* POST /api/files/upload without an expiry has minted a token that expires
   after 5 minutes. *)
C18_Witness ==
    /\ Granted(req[1]) /\ req[1].kind = "upload" /\ req[1].body.expiry = ""
    /\ \E t \in req[1].minted : t.claims.exp = now + Timespan("5m")

----------------------------------------------------------------------------
(* C19: every minted token carries a non-empty permission set: <<"read">>
   when no permissions were given at mint time, and never an empty set or a
   set with an empty permission name, whatever mint call or mint request
   made it. *)

C19_PermissionsNonEmpty ==
    \A s \in Slots :
        \A t \in req[s].minted :
            /\ t.claims.permissions # <<>>
            /\ \A i \in DOMAIN t.claims.permissions : t.claims.permissions[i] # ""
            /\ req[s].body.permissions.form = "none" => t.claims.permissions = <<"read">>

(* The mint endpoint, sent permissions "read," for a stored blob, has
   answered 200 with a token whose permissions are read and the empty name. *)
C19_Witness ==
    /\ req[1].kind = "mint" /\ req[1].status = 200
    /\ req[1].body.permissions = [form |-> "string", items |-> <<"read", ",">>]
    /\ \E t \in req[1].minted : t.claims.permissions = <<"read", "">>

----------------------------------------------------------------------------
(* C20: mint followed by verify is a round trip. For every token minted for
   a blob id with permissions, subject and metadata, validateToken at any
   time before the token's expiry returns valid with exactly that blob id,
   those permissions (read when none were given), that subject and that
   metadata; the id in the signed URL's path is the id in the token, so the
   URL passes validateFileAccess for its own id. *)

(* What the minting code hands to the service for the record r. *)
MintedFor(r) ==
    CASE r.kind = "call" ->
            [userId |-> r.body.userId, metadata |-> r.body.metadata,
             permissions |-> IF r.body.permissions.form = "none" THEN <<"read">>
                             ELSE r.body.permissions.items]
      [] r.kind = "mint" ->
            [userId |-> r.body.userId, metadata |-> r.body.metadata,
             permissions |-> SplitPerms(r.body.permissions)]
      [] OTHER ->
            [userId |-> UploadUser(r.kind, r.body.userId),
             metadata |-> UploadMetadata(r.kind), permissions |-> <<"read">>]

RoundTrip(r, t, c) ==
    LET v == validateToken(t, c)
        gate == validateFileAccess(
                    [Idle EXCEPT !.kind = "stream", !.pc = "mw", !.id = r.url, !.tok = t], c)
    IN /\ v.valid
       /\ v.payload.fileId = r.id
       /\ v.payload.userId = MintedFor(r).userId
       /\ v.payload.permissions = MintedFor(r).permissions
       /\ v.payload.metadata = MintedFor(r).metadata
       /\ gate.pc = "handler" /\ gate.hasAccess /\ gate.responses = 0

----------------------------------------------------------------------------
(* C21: verification is stateless and tracks no use: the gate's result for
   a token, a path id and a clock value is the same however often the token
   was presented before and whatever other requests are being served, so a
   valid token for the path's id is accepted on every presentation until
   its expiry. Every read on a connection carries the result that the gate
   computes afresh for its token and id at the current time. *)

Afresh(r) ==
    validateFileAccess([Idle EXCEPT !.kind = r.kind, !.pc = "mw", !.id = r.id,
                                    !.tok = r.tok], now)

C21_VerifyIsStateless ==
    \A s \in Slots :
        req[s].kind \in ReadKinds =>
            /\ req[s].hasAccess = Afresh(req[s]).hasAccess
            /\ req[s].fileAccess = Afresh(req[s]).fileAccess
            /\ ~req[s].hasAccess => req[s] = Afresh(req[s])
            /\ Bound(req[s]) => req[s].hasAccess /\ req[s].status \in {200, 404}

(* The same token is on both connections, and both reads were answered 200
   with the blob's bytes. *)
C21_Witness ==
    /\ req[1].kind = "stream" /\ req[2].kind = "stream"
    /\ req[1].tok = req[2].tok /\ req[1].tok \in tokens
    /\ \A s \in Slots :
          req[s].status = 200 /\ req[s].hasAccess /\ req[s].sent = Buffer(MaxLen)

----------------------------------------------------------------------------
(* C22: the token's expiry is checked once, by the gate, before streaming
   starts: a read that was let through keeps its access when the token
   expires while its bytes are being piped; its transfer stops short only
   when the blob's chunks are gone, is never answered 401, and a transfer
   that ends has sent every byte of the blob. *)

C22_ExpiryCheckedOnce ==
    \A s \in ByteReaders :
        req[s].hasAccess =>
            /\ req[s].status # 401
            /\ req[s].pc = "stalled" =>
                  \/ req[s].id \notin DOMAIN chunks
                  \/ Len(req[s].sent) >= Len(chunks[req[s].id])
            /\ req[s].pc = "done" /\ req[s].status = 200 =>
                  req[s].ended /\ req[s].sent = Buffer(req[s].info.length)

(* A transfer that ended complete although its token expired while the
   bytes were being piped (the clock advances only between requests and
   while a read is piping). *)
C22_Witness ==
    /\ 2 \in ByteReaders /\ req[2].hasAccess
    /\ req[2].pc = "done" /\ req[2].status = 200
    /\ req[2].sent = Buffer(MaxLen)
    /\ req[2].tok.claims.exp <= now

----------------------------------------------------------------------------
(* C23: when the store's read stream errors after the response headers
   were sent, the gateway eventually terminates the connection: the
   response does not stay open indefinitely (the status stays as sent and
   no JSON body is written). Every read whose stream failed behind its
   headers leads to the response being ended, or to the connection being
   gone otherwise. *)

C23_FailedStreamIsTerminated ==
    \A s \in Slots :
        (req[s].pc = "stalled") ~> (req[s].ended \/ req[s].pc # "stalled")

(* A read whose chunks went missing behind its headers: status 200 as sent,
   one response, no error body, and the response not ended. *)
C23_Witness ==
    \E s \in ByteReaders :
        /\ req[s].pc = "stalled" /\ req[s].headersSent /\ ~req[s].ended
        /\ req[s].status = 200 /\ req[s].responses = 1 /\ req[s].error = ""
        /\ Len(req[s].sent) < req[s].info.length

----------------------------------------------------------------------------
(* C24: when the client's connection of a read closes before the blob is
   fully sent, the gateway eventually stops pulling from the store's read
   stream and releases it: no store stream stays open after its request
   has ended. *)

C24_AbortedStreamIsReleased ==
    \A s \in Slots :
        (req[s].pc = "aborted") ~> ~StoreStreamOpen(req[s])

(* A read left by its client with part of the blob sent, its download
   stream still open. *)
C24_Witness ==
    \E s \in ByteReaders :
        /\ req[s].pc = "aborted" /\ StoreStreamOpen(req[s])
        /\ Len(req[s].sent) < req[s].info.length /\ req[s].headersSent

----------------------------------------------------------------------------
(* C25: minting a token (after an upload or a generated image was stored,
   or through the mint endpoint) and verifying a token never change the
   blob store: the stored blobs and their metadata are the same before and
   after the step, and the mint endpoint draws no new id, so fresh tokens
   for an existing id are obtained without uploading again. *)

MintStep(s) == req[s].minted = {} /\ req'[s].minted # {}

VerifyStep(s) == req[s].kind = "idle" /\ req'[s].kind \in ReadKinds

C25_MintAndVerifyLeaveStore ==
    [][\A s \in Slots :
          /\ MintStep(s) \/ VerifyStep(s) => files' = files /\ chunks' = chunks
          /\ MintStep(s) /\ req[s].kind = "mint" => nextId' = nextId]_vars

(* The mint endpoint minted a token for a stored blob while a read with a
   verified token is being served. *)
C25_Witness ==
    \E s, v \in Slots :
        /\ req[s].kind = "mint" /\ req[s].status = 200 /\ req[s].minted # {}
        /\ req[s].id \in DOMAIN files
        /\ req[v].kind \in ReadKinds /\ req[v].hasAccess

----------------------------------------------------------------------------
(* C26: the allow/deny outcome of a read depends only on the token's
   validity and its id binding: a request to the same endpoint and path id
   whose token differs only in subject, permissions or metadata gets the
   same status, on the stream endpoint and on the download endpoint. *)

Subjects == {"", "mallory"}
Grants == {<<>>, <<"read">>}
Auxiliary == {"", "purpose"}

(* The token t with another subject, other permissions and other metadata:
   signed by the server when t is, carrying t's signature otherwise. *)
Differing(t, u, p, m) ==
    LET claims == [t.claims EXCEPT !.userId = u, !.permissions = p, !.metadata = m]
    IN IF Intact(t) THEN JwtSign(claims, JWT_SECRET) ELSE [t EXCEPT !.claims = claims]

Again(r, t) ==
    ServeRead(validateFileAccess(
        [Idle EXCEPT !.kind = r.kind, !.pc = "mw", !.id = r.id, !.tok = t], now))

----------------------------------------------------------------------------
(* C28: a read of a blob with a valid bound token that interleaves with a
   delete of the blob ends with 200 and the complete bytes, or with 404: it
   never ends in a 500 and never announces a Content-Length whose bytes it
   does not deliver. *)

C28_ReadBesideDeleteIsAllOrNothing ==
    \A s \in ByteReaders :
        req[s].hasAccess /\ req[s].pc \in {"done", "stalled"} =>
            \/ req[s].status = 404
            \/ /\ req[s].status = 200 /\ req[s].ended
               /\ req[s].sent = Buffer(req[s].info.length)

(* A read that found the blob's file document and was answered 500 because
   the delete on the other connection removed it before the stream opened. *)
C28_Witness ==
    \E s \in ByteReaders, d \in Slots :
        /\ req[s].hasAccess /\ req[s].info.found /\ req[s].status = 500
        /\ req[s].error = StreamError(req[s].kind)
        /\ req[d].kind = "delete" /\ req[d].id = req[s].id /\ req[d].consulted

----------------------------------------------------------------------------
(* C29: an upload request that does not end in 201 leaves the set of stored
   blobs as it was before the request, also when the store step succeeded
   and the mint that follows it failed: the id drawn for the upload names
   no stored blob. *)

C29_FailedUploadStoresNothing ==
    \A s \in Slots :
        /\ req[s].kind \in {"upload", "simple"}
        /\ req[s].pc = "done" /\ req[s].status # 201
        => req[s].upId \notin DOMAIN files

(* POST /api/upload with an expiry jwt.sign cannot parse: answered 500
   after the blob was stored, and the blob is there, complete. *)
C29_Witness ==
    /\ req[1].kind = "simple" /\ req[1].pc = "done" /\ req[1].status = 500
    /\ req[1].body.expiry = "abc"
    /\ req[1].upId \in DOMAIN files
    /\ getFileInfo(req[1].upId).found
    /\ Written(req[1].upId) = Buffer(req[1].size)

----------------------------------------------------------------------------
(* C27: at most one database connection attempt is in progress at any
   time: no second client is created while an earlier connect is pending. *)

Pending == {c \in Callers : conn.call[c].pc = "connecting"}

C27_OneConnectAtATime == Cardinality(Pending) <= 1

(* Two callers each wait for the connect of a client of their own. *)
C27_Witness ==
    /\ Pending = Callers
    /\ conn.call[1].mine # conn.call[2].mine
    /\ conn.created >= 2

----------------------------------------------------------------------------
(* C30: after connectToDatabase has found the connection lost and has
   reconnected, every store operation uses a bucket bound to the new
   database handle: the operation of a caller runs on a bucket built on the
   handle its connectToDatabase returned. *)

C30_BucketFollowsReconnect ==
    \A c \in Callers :
        conn.call[c].pc = "returned" /\ conn.call[c].op =>
            conn.call[c].used = conn.call[c].ret

(* A caller was returned the handle of the connected second client, and
   its store operation ran on the bucket of the first, closed one. *)
C30_Witness ==
    \E c \in Callers :
        /\ conn.call[c].pc = "returned" /\ conn.call[c].op
        /\ conn.call[c].ret \in conn.alive
        /\ conn.call[c].used # conn.call[c].ret
        /\ conn.call[c].used \notin conn.alive

====
